---- MODULE Spec2Model ----
(***************************************************************************)
(* Model of script.py: a worker that polls an SQS queue, deletes each      *)
(* message at receipt, fetches the rows the message names from MongoDB,    *)
(* optionally projects/renames columns with Spark, writes a CSV to /tmp,   *)
(* uploads it to S3 and removes the local file.                            *)
(*                                                                         *)
(* Assumptions about the environment, stated once:                         *)
(*  - POLL_INTERVAL is configured non-negative, so time.sleep returns.     *)
(*  - every external call returns or raises an Exception (no hang, no      *)
(*    BaseException such as KeyboardInterrupt).                            *)
(*  - printing a log line does not raise.                                  *)
(*  - uuid.uuid4() never returns a value it returned before.               *)
(*  - a message deleted from the queue is not delivered again; a message   *)
(*    received and not deleted becomes visible again when its visibility   *)
(*    timeout expires.                                                     *)
(***************************************************************************)
EXTENDS Integers, Sequences, FiniteSets, TLC

\* ------------------------------------------------------------------ bounds
NumMsgs == 2          \* messages the producers may put on the queue
NumMsgsTwo == 1       \* the same, when two instances share the queue
MaxCols == 3          \* longest column list / mapping given to the column mapper

\* --------------------------------------------------------- program constants
POLL_INTERVAL == 5    \* seconds, default of the POLL_INTERVAL setting

S3_PATH == "exports"  \* value of the S3_PATH setting (any fixed string)

\* ------------------------------------------------------------------- values
MsgIds == 1 .. NumMsgs
Instances == {1, 2}

InSeq(x, s) == \E k \in 1 .. Len(s) : s[k] = x

\* An ordered mapping (a Python dict) is a sequence of <<key, value>> pairs
\* with pairwise distinct keys, in insertion order.
Keys(m) == [k \in 1 .. Len(m) |-> m[k][1]]

Lookup(m, key) == (CHOOSE k \in 1 .. Len(m) : m[k][1] = key)

DistinctSeq(s) == \A j, k \in 1 .. Len(s) : j # k => s[j] # s[k]

\* ------------------------------------------------------ apply_column_mapping
\* df.withColumnRenamed(existing, new): every column named `existing` is
\* renamed; a no-op when no column has that name.
withColumnRenamed(cols, existing, new) ==
  [k \in 1 .. Len(cols) |-> IF cols[k] = existing THEN new ELSE cols[k]]

\* selected = [col for col in mapping.keys() if col in df.columns]
selected(cols, mapping) == SelectSeq(Keys(mapping), LAMBDA c : InSeq(c, cols))

\* for mongo_col, csv_col in mapping.items(): df = df.withColumnRenamed(...)
\* applied to the first n items of the mapping, one after the other.
RECURSIVE RenameLoop(_, _, _)
RenameLoop(cols, mapping, n) ==
  IF n = 0 THEN cols
  ELSE withColumnRenamed(RenameLoop(cols, mapping, n - 1),
                         mapping[n][1], mapping[n][2])

apply_column_mapping(cols, mapping) ==
  RenameLoop(selected(cols, mapping), mapping, Len(mapping))

\* The column list the mapping denotes: [M[k] for k in M if k in C].
MappedColumns(cols, mapping) ==
  LET sel == selected(cols, mapping)
  IN  [k \in 1 .. Len(sel) |-> mapping[Lookup(mapping, sel[k])][2]]

\* ------------------------------------------------------------- save_to_s3
\* uuid.uuid4().hex is 32 hexadecimal characters.  The values are opaque
\* and interchangeable, so the n-th value handed out is written as n.
HexDigit == <<"0", "1", "2", "3", "4", "5", "6", "7", "8", "9", "a", "b", "c", "d", "e", "f">>

TokenOf(n) ==
  "000000000000000000000000000000" \o HexDigit[((n \div 16) % 16) + 1]
                                   \o HexDigit[(n % 16) + 1]

\* Variant: the file named after the table alone.
FileName_noToken(table_name, token) == table_name \o ".csv"

\* file_name = f"{table_name}_{uuid.uuid4().hex}.csv"
FileName(table_name, token) == table_name \o "_" \o token \o ".csv"

\* local_path = f"/tmp/{file_name}"
LocalPath(file_name) == "/tmp/" \o file_name

\* s3_key = f"{S3_PATH}/{file_name}"
S3Key(file_name) == S3_PATH \o "/" \o file_name

\* ------------------------------------------------------------ message bodies
\* A queue message body, by what json.loads and process_message make of it:
\*   kind    "malformed" (json.loads raises), "falsy" (parses to {}, null, 0,
\*           "" or []), "nondict" (parses to a non-empty list, a string or a
\*           number: it has no .get), "dict" (a non-empty JSON object);
\*   tnKind  of a dict: "absent" (no "table_name" key), "null", "str";
\*   tn      the table_name string when tnKind = "str";
\*   mapping the column_mapping, <<>> when absent or empty.
Body(kind, tnKind, tn, mapping) ==
  [kind |-> kind, tnKind |-> tnKind, tn |-> tn, mapping |-> mapping]

NoBody == Body("none", "absent", "", <<>>)

ExampleMapping == << <<"a", "x">>, <<"c", "z">>, <<"d", "w">> >>

Bodies ==
  { Body("malformed", "absent", "", <<>>),
    Body("falsy", "absent", "", <<>>),
    Body("nondict", "absent", "", <<>>),
    Body("dict", "absent", "", <<>>),
    Body("dict", "null", "", <<>>),
    Body("dict", "str", "", <<>>),
    Body("dict", "str", "orders", <<>>),
    Body("dict", "str", "orders_0", ExampleMapping) }

\* A fetch result: n rows (-1: nothing fetched yet) with the given columns.
Data(n, cols) == [n |-> n, cols |-> cols]

NotFetched == Data(-1, <<>>)

ExampleColumns == <<"a", "b", "c">>

FetchResults == { Data(0, <<>>), Data(2, ExampleColumns) }

\* A Spark DataFrame, by its column list.
NoDf == [made |-> FALSE, cols |-> <<>>]

DataFrame(cols) == [made |-> TRUE, cols |-> cols]

\* Inputs of the column mapper taken alone.
KeyNames == {"a", "b", "c"}

ValueNames == {"a", "b", "c", "x"}

RECURSIVE SeqsUpTo(_, _)
SeqsUpTo(S, n) ==
  IF n = 0 THEN { <<>> }
  ELSE LET shorter == SeqsUpTo(S, n - 1)
       IN  shorter \cup { Append(s, x) : s \in shorter, x \in S }

ColumnLists == { s \in SeqsUpTo(KeyNames, MaxCols) : DistinctSeq(s) }

Mappings == { m \in SeqsUpTo(KeyNames \X ValueNames, MaxCols) : DistinctSeq(Keys(m)) }

\* -------------------------------------------------------------------- state
VARIABLES
  mode,        \* "service": main() runs; "unit": the column mapper is called alone
  active,      \* the service instances that run
  queue,       \* message id -> "unsent", "visible", "inflight" or "deleted"
  body,        \* message id -> its body while the queue holds it
  pc,          \* instance -> the statement it is about to execute
  cur,         \* instance -> id of the message receive_message obtained (0: none)
  msg,         \* instance -> body of messages[0] as received
  message,     \* instance -> the parsed body returned by receive_message
  data,        \* instance -> result of fetch_data
  df,          \* instance -> the DataFrame of the job
  file_name,   \* instance -> file_name of save_to_s3 ("" outside it)
  local,       \* instance -> paths of the files under /tmp
  s3,          \* keys of the objects in the bucket
  conns,       \* instance -> MongoClient connections opened and not closed
  issued,      \* values uuid4 has returned
  processed,   \* history: message id -> calls of process_message with it
  uploads,     \* history: the successful uploads, in order
  overwritten, \* history: an upload replaced an existing object
  lastExc,     \* history: instance -> where the exception being handled was raised
  caught,      \* history: instance -> the except clause ran in this iteration
  waits,       \* history: instance -> the sleeps of this iteration, in seconds
  invoked,     \* history: instance -> process_message was called in this iteration
  calls,       \* history: instance -> the steps process_message has made
  processedBy, \* history: message id -> the instances that called process_message with it
  mC, mM,      \* unit: the column list and the mapping given to the mapper
  mOut,        \* unit: the column list it returned
  mDone        \* unit: it has returned

svars == <<queue, body, pc, cur, msg, message, data, df, file_name, local, s3, conns,
           issued, processed, uploads, overwritten, lastExc, caught, waits,
           invoked, calls, processedBy>>

uvars == <<mC, mM, mOut, mDone>>

vars == <<mode, active, svars, uvars>>

InitService ==
  /\ queue = [m \in MsgIds |-> "unsent"]
  /\ body = [m \in MsgIds |-> NoBody]
  /\ pc = [i \in Instances |-> IF i \in active THEN "poll" ELSE "off"]
  /\ cur = [i \in Instances |-> 0]
  /\ msg = [i \in Instances |-> NoBody]
  /\ message = [i \in Instances |-> NoBody]
  /\ data = [i \in Instances |-> NotFetched]
  /\ df = [i \in Instances |-> NoDf]
  /\ file_name = [i \in Instances |-> ""]
  /\ local = [i \in Instances |-> {}]
  /\ s3 = {}
  /\ conns = [i \in Instances |-> 0]
  /\ issued = {}
  /\ processed = [m \in MsgIds |-> 0]
  /\ uploads = <<>>
  /\ overwritten = FALSE
  /\ lastExc = [i \in Instances |-> "none"]
  /\ caught = [i \in Instances |-> FALSE]
  /\ waits = [i \in Instances |-> <<>>]
  /\ invoked = [i \in Instances |-> FALSE]
  /\ calls = [i \in Instances |-> <<>>]
  /\ processedBy = [m \in MsgIds |-> {}]

InitUnit ==
  /\ mOut = <<>>
  /\ mDone = FALSE

\* One instance of the service, or one call of the column mapper on any input.
Init ==
  /\ active = {1}
  /\ InitService
  /\ InitUnit
  /\ \/ mode = "service" /\ mC = <<>> /\ mM = <<>>
     \/ mode = "unit" /\ mC \in ColumnLists /\ mM \in Mappings

\* ------------------------------------------------------------------ helpers
Set(f, i, v) == [f EXCEPT ![i] = v]

\* An exception leaves the try block of main() for its except clause.
Raise(i, where) ==
  /\ pc' = Set(pc, i, "except")
  /\ lastExc' = Set(lastExc, i, where)

\* Variant: the check written `if table_name is None`.
TableMissing_isNone(job) == job.tnKind \in {"absent", "null"}

\* if not table_name: absent and null give None, "" is the empty string.
TableMissing(job) == job.tnKind \in {"absent", "null"} \/ job.tn = ""

\* Variant: the check written `if data is None` (find returns a list).
NoData_isNone(d) == FALSE

\* if not data
NoData(d) == d.n = 0

\* Variant: the mapper called without the `if column_mapping:` check.
MappingGiven_always(job) == TRUE

\* if column_mapping
MappingGiven(job) == job.mapping # <<>>

\* uuid.uuid4().hex: a value no earlier call returned.
uuid4 == TokenOf(Cardinality(issued) + 1)

\* ---------------------------------------------------------------- the queue
\* A producer puts the next message on the queue.
Send(m) ==
  /\ mode = "service"
  /\ queue[m] = "unsent"
  /\ m <= (IF Cardinality(active) > 1 THEN NumMsgsTwo ELSE NumMsgs)
  /\ \A k \in MsgIds : k < m => queue[k] # "unsent"
  /\ \E b \in Bodies : body' = Set(body, m, b)
  /\ queue' = Set(queue, m, "visible")
  /\ UNCHANGED <<mode, active, pc, cur, msg, message, data, df, file_name, local, s3,
                 conns, issued, processed, uploads, overwritten, lastExc, caught,
                 waits, invoked, calls, processedBy, uvars>>

\* The visibility timeout of a received, undeleted message expires.
Expire(m) ==
  /\ mode = "service"
  /\ queue[m] = "inflight"
  /\ queue' = Set(queue, m, "visible")
  /\ UNCHANGED <<mode, active, body, pc, cur, msg, message, data, df, file_name, local,
                 s3, conns, issued, processed, uploads, overwritten, lastExc,
                 caught, waits, invoked, calls, processedBy, uvars>>

\* ---------------------------------------------------------- receive_message
\* Top of the loop: sqs.receive_message, then `if not messages: return None`
\* and main's else branch, or msg = messages[0].
ReceiveMessage(i) ==
  /\ mode = "service"
  /\ pc[i] = "poll"
  /\ message' = Set(message, i, NoBody)
  /\ data' = Set(data, i, NotFetched)
  /\ df' = Set(df, i, NoDf)
  /\ file_name' = Set(file_name, i, "")
  /\ caught' = Set(caught, i, FALSE)
  /\ waits' = Set(waits, i, <<>>)
  /\ invoked' = Set(invoked, i, FALSE)
  /\ calls' = Set(calls, i, <<>>)
  /\ \/ /\ Raise(i, "receive")
        /\ cur' = Set(cur, i, 0)
        /\ msg' = Set(msg, i, NoBody)
        /\ UNCHANGED queue
     \/ /\ pc' = Set(pc, i, "sleep")
        /\ lastExc' = Set(lastExc, i, "none")
        /\ cur' = Set(cur, i, 0)
        /\ msg' = Set(msg, i, NoBody)
        /\ UNCHANGED queue
     \/ \E m \in MsgIds :
          /\ queue[m] = "visible"
          /\ queue' = Set(queue, m, "inflight")
          /\ cur' = Set(cur, i, m)
          /\ msg' = Set(msg, i, body[m])
          /\ pc' = Set(pc, i, "delete")
          /\ lastExc' = Set(lastExc, i, "none")
  /\ UNCHANGED <<mode, active, body, local, s3, conns, issued, processed, uploads,
                 overwritten, processedBy, uvars>>

\* Variant: receive_message returns the body without deleting the message.
DeleteMessage_skipped(i) ==
  /\ mode = "service"
  /\ pc[i] = "delete"
  /\ pc' = Set(pc, i, "parse")
  /\ UNCHANGED <<mode, active, queue, body, cur, msg, message, data, df, file_name,
                 local, s3, conns, issued, processed, uploads, overwritten, lastExc,
                 caught, waits, invoked, calls, processedBy, uvars>>

\* sqs.delete_message(QueueUrl=SQS_URL, ReceiptHandle=msg['ReceiptHandle'])
DeleteMessage(i) ==
  /\ mode = "service"
  /\ pc[i] = "delete"
  /\ \/ /\ queue' = Set(queue, cur[i], "deleted")
        /\ body' = Set(body, cur[i], NoBody)
        /\ pc' = Set(pc, i, "parse")
        /\ UNCHANGED lastExc
     \/ /\ Raise(i, "delete")
        /\ UNCHANGED <<queue, body>>
  /\ UNCHANGED <<mode, active, cur, msg, message, data, df, file_name, local, s3,
                 conns, issued, processed, uploads, overwritten, caught, waits,
                 invoked, calls, processedBy, uvars>>

\* return json.loads(msg['Body']), then main's `if message:` and the call
\* process_message(message), or the else branch.
ParseBody(i) ==
  /\ mode = "service"
  /\ pc[i] = "parse"
  /\ msg' = Set(msg, i, NoBody)
  /\ \/ /\ msg[i].kind = "malformed"
        /\ Raise(i, "parse")
        /\ UNCHANGED <<message, processed, processedBy, invoked>>
     \/ /\ msg[i].kind = "falsy"
        /\ pc' = Set(pc, i, "sleep")
        /\ UNCHANGED <<message, processed, processedBy, invoked, lastExc>>
     \/ /\ msg[i].kind \in {"nondict", "dict"}
        /\ message' = Set(message, i, msg[i])
        /\ processed' = Set(processed, cur[i], processed[cur[i]] + 1)
        /\ processedBy' = Set(processedBy, cur[i], processedBy[cur[i]] \cup {i})
        /\ invoked' = Set(invoked, i, TRUE)
        /\ pc' = Set(pc, i, "process")
        /\ UNCHANGED lastExc
  /\ UNCHANGED <<mode, active, queue, body, cur, data, df, file_name, local, s3,
                 conns, issued, uploads, overwritten, caught, waits, calls, uvars>>

\* ---------------------------------------------------------- process_message
\* From the print to the table_name check: message.get(...) three times, then
\* `if not table_name: return`.
ProcessMessage(i) ==
  /\ mode = "service"
  /\ pc[i] = "process"
  /\ \/ /\ message[i].kind = "nondict"
        /\ Raise(i, "process")
     \/ /\ message[i].kind = "dict"
        /\ pc' = Set(pc, i, IF TableMissing(message[i]) THEN "poll" ELSE "fetch")
        /\ UNCHANGED lastExc
  /\ UNCHANGED <<mode, active, queue, body, cur, msg, message, data, df, file_name,
                 local, s3, conns, issued, processed, uploads, overwritten, caught,
                 waits, invoked, calls, processedBy, uvars>>

\* data = fetch_data(query, table_name), then `if not data: return`.
\* fetch_data: MongoClient(...) (which connects lazily and does not raise),
\* collection.find, client.close().  The client is closed only when find
\* returned.
FetchData(i) ==
  /\ mode = "service"
  /\ pc[i] = "fetch"
  /\ calls' = Set(calls, i, Append(calls[i], "fetch"))
  /\ \/ /\ Raise(i, "fetch")
        /\ conns' = Set(conns, i, conns[i] + 1)
        /\ UNCHANGED data
     \/ \E r \in FetchResults :
          /\ data' = Set(data, i, r)
          /\ pc' = Set(pc, i, IF NoData(r) THEN "poll" ELSE "createDF")
          /\ UNCHANGED <<lastExc, conns>>
  /\ UNCHANGED <<mode, active, queue, body, cur, msg, message, df, file_name, local,
                 s3, issued, processed, uploads, overwritten, caught, waits,
                 invoked, processedBy, uvars>>

\* Variant: process_message goes from createDataFrame straight to save_to_s3.
CreateDataFrame_skipMapping(i) ==
  /\ mode = "service"
  /\ pc[i] = "createDF"
  /\ \/ /\ Raise(i, "createDF")
        /\ UNCHANGED df
     \/ /\ df' = Set(df, i, DataFrame(data[i].cols))
        /\ pc' = Set(pc, i, "save")
        /\ UNCHANGED lastExc
  /\ UNCHANGED <<mode, active, queue, body, cur, msg, message, data, file_name,
                 local, s3, conns, issued, processed, uploads, overwritten, caught,
                 waits, invoked, calls, processedBy, uvars>>

\* df = spark.createDataFrame(data), then `if column_mapping:`.
CreateDataFrame(i) ==
  /\ mode = "service"
  /\ pc[i] = "createDF"
  /\ \/ /\ Raise(i, "createDF")
        /\ UNCHANGED df
     \/ /\ df' = Set(df, i, DataFrame(data[i].cols))
        /\ pc' = Set(pc, i, IF MappingGiven(message[i]) THEN "map" ELSE "save")
        /\ UNCHANGED lastExc
  /\ UNCHANGED <<mode, active, queue, body, cur, msg, message, data, file_name,
                 local, s3, conns, issued, processed, uploads, overwritten, caught,
                 waits, invoked, calls, processedBy, uvars>>

\* df = apply_column_mapping(df, column_mapping); Spark may reject the select
\* or a rename (a name it cannot resolve) by raising.
MapColumns(i) ==
  /\ mode = "service"
  /\ pc[i] = "map"
  /\ calls' = Set(calls, i, Append(calls[i], "map"))
  /\ \/ /\ df' = Set(df, i, DataFrame(apply_column_mapping(df[i].cols, message[i].mapping)))
        /\ pc' = Set(pc, i, "save")
        /\ UNCHANGED lastExc
     \/ /\ Raise(i, "map")
        /\ UNCHANGED df
  /\ UNCHANGED <<mode, active, queue, body, cur, msg, message, data, file_name,
                 local, s3, conns, issued, processed, uploads, overwritten, caught,
                 waits, invoked, processedBy, uvars>>

\* ---------------------------------------------------------------- save_to_s3
\* file_name, local_path, s3_key, then df.toPandas().to_csv(local_path, ...).
WriteCsv(i) ==
  /\ mode = "service"
  /\ pc[i] = "save"
  /\ issued' = issued \cup {uuid4}
  /\ file_name' = Set(file_name, i, FileName(message[i].tn, uuid4))
  /\ \/ /\ Raise(i, "write")
        /\ UNCHANGED <<local, calls>>
     \/ /\ local' = Set(local, i, local[i] \cup {LocalPath(file_name'[i])})
        /\ calls' = Set(calls, i, Append(calls[i], "write"))
        /\ pc' = Set(pc, i, "upload")
        /\ UNCHANGED lastExc
  /\ UNCHANGED <<mode, active, queue, body, cur, msg, message, data, df, s3, conns,
                 processed, uploads, overwritten, caught, waits, invoked, processedBy, uvars>>

\* boto3.client('s3').upload_file(local_path, S3_BUCKET, s3_key)
UploadFile(i) ==
  /\ mode = "service"
  /\ pc[i] = "upload"
  /\ calls' = Set(calls, i, Append(calls[i], "upload"))
  /\ \/ /\ s3' = s3 \cup {S3Key(file_name[i])}
        /\ overwritten' = (overwritten \/ S3Key(file_name[i]) \in s3)
        /\ uploads' = Append(uploads, [key |-> S3Key(file_name[i]), msg |-> cur[i],
                                       table |-> message[i].tn, inst |-> i,
                                       tnKind |-> message[i].tnKind,
                                       rows |-> data[i].n])
        /\ pc' = Set(pc, i, "remove")
        /\ UNCHANGED lastExc
     \/ /\ Raise(i, "upload")
        /\ UNCHANGED <<s3, overwritten, uploads>>
  /\ UNCHANGED <<mode, active, queue, body, cur, msg, message, data, df, file_name,
                 local, conns, issued, processed, caught, waits, invoked, processedBy, uvars>>

\* os.remove(local_path), the print, and the return to the top of the loop.
RemoveLocal(i) ==
  /\ mode = "service"
  /\ pc[i] = "remove"
  /\ local' = Set(local, i, local[i] \ {LocalPath(file_name[i])})
  /\ calls' = Set(calls, i, Append(calls[i], "remove"))
  /\ pc' = Set(pc, i, "poll")
  /\ UNCHANGED <<mode, active, queue, body, cur, msg, message, data, df, file_name,
                 s3, conns, issued, processed, uploads, overwritten, lastExc,
                 caught, waits, invoked, processedBy, uvars>>

\* ---------------------------------------------------------------------- main
\* else: print(...); time.sleep(POLL_INTERVAL)
SleepOnEmpty(i) ==
  /\ mode = "service"
  /\ pc[i] = "sleep"
  /\ waits' = Set(waits, i, Append(waits[i], POLL_INTERVAL))
  /\ pc' = Set(pc, i, "poll")
  /\ UNCHANGED <<mode, active, queue, body, cur, msg, message, data, df, file_name,
                 local, s3, conns, issued, processed, uploads, overwritten, lastExc,
                 caught, invoked, calls, processedBy, uvars>>

\* Variant: the except clause puts the failed job back on the queue.
HandleException_requeue(i) ==
  /\ mode = "service"
  /\ pc[i] = "except"
  /\ caught' = Set(caught, i, TRUE)
  /\ waits' = Set(waits, i, Append(waits[i], POLL_INTERVAL))
  /\ pc' = Set(pc, i, "poll")
  /\ IF invoked[i]
       THEN /\ queue' = Set(queue, cur[i], "visible")
            /\ body' = Set(body, cur[i], message[i])
       ELSE UNCHANGED <<queue, body>>
  /\ UNCHANGED <<mode, active, cur, msg, message, data, df, file_name, local, s3,
                 conns, issued, processed, uploads, overwritten, lastExc, invoked,
                 calls, processedBy, uvars>>

\* Variant: the except clause re-raises, which ends main().
HandleException_exit(i) ==
  /\ mode = "service"
  /\ pc[i] = "except"
  /\ caught' = Set(caught, i, TRUE)
  /\ pc' = Set(pc, i, "off")
  /\ UNCHANGED <<mode, active, queue, body, cur, msg, message, data, df, file_name,
                 local, s3, conns, issued, processed, uploads, overwritten, lastExc,
                 waits, invoked, calls, processedBy, uvars>>

\* Variant: the except clause logs and continues without sleeping.
HandleException_noSleep(i) ==
  /\ mode = "service"
  /\ pc[i] = "except"
  /\ caught' = Set(caught, i, TRUE)
  /\ pc' = Set(pc, i, "poll")
  /\ UNCHANGED <<mode, active, queue, body, cur, msg, message, data, df, file_name,
                 local, s3, conns, issued, processed, uploads, overwritten, lastExc,
                 waits, invoked, calls, processedBy, uvars>>

\* except Exception as e: print(...); time.sleep(POLL_INTERVAL)
HandleException(i) ==
  /\ mode = "service"
  /\ pc[i] = "except"
  /\ caught' = Set(caught, i, TRUE)
  /\ waits' = Set(waits, i, Append(waits[i], POLL_INTERVAL))
  /\ pc' = Set(pc, i, "poll")
  /\ UNCHANGED <<mode, active, queue, body, cur, msg, message, data, df, file_name,
                 local, s3, conns, issued, processed, uploads, overwritten, lastExc,
                 invoked, calls, processedBy, uvars>>

\* One statement of instance i.
Step(i) ==
  \/ ReceiveMessage(i)
  \/ DeleteMessage(i)
  \/ ParseBody(i)
  \/ ProcessMessage(i)
  \/ FetchData(i)
  \/ CreateDataFrame(i)
  \/ MapColumns(i)
  \/ WriteCsv(i)
  \/ UploadFile(i)
  \/ RemoveLocal(i)
  \/ SleepOnEmpty(i)
  \/ HandleException(i)

\* ------------------------------------------------- the column mapper alone
ApplyMapping ==
  /\ mode = "unit"
  /\ ~mDone
  /\ mOut' = apply_column_mapping(mC, mM)
  /\ mDone' = TRUE
  /\ UNCHANGED <<mode, active, svars, mC, mM>>

\* ------------------------------------------------------------ specifications
Next ==
  \/ \E m \in MsgIds : Send(m)
  \/ \E m \in MsgIds : Expire(m)
  \/ \E i \in active : ReceiveMessage(i)
  \/ \E i \in active : DeleteMessage(i)
  \/ \E i \in active : ParseBody(i)
  \/ \E i \in active : ProcessMessage(i)
  \/ \E i \in active : FetchData(i)
  \/ \E i \in active : CreateDataFrame(i)
  \/ \E i \in active : MapColumns(i)
  \/ \E i \in active : WriteCsv(i)
  \/ \E i \in active : UploadFile(i)
  \/ \E i \in active : RemoveLocal(i)
  \/ \E i \in active : SleepOnEmpty(i)
  \/ \E i \in active : HandleException(i)
  \/ ApplyMapping

Spec == Init /\ [][Next]_vars

\* Two instances of the service started against the same queue.
InitTwo ==
  /\ active = {1, 2}
  /\ InitService
  /\ InitUnit
  /\ \/ mode = "service" /\ mC = <<>> /\ mM = <<>>
     \/ mode = "unit" /\ mC \in ColumnLists /\ mM \in Mappings

TwoSpec == InitTwo /\ [][Next]_vars

\* The interpreter keeps executing a running instance: each instance takes
\* its next statement eventually.  Producers and timeouts owe nothing.
FairSpec == Spec /\ \A i \in Instances : WF_vars(Step(i))

\* -------------------------------------------------------------- properties
\* The statements of an iteration that come after the queue delete: the body
\* parse in receive_message and everything process_message does.
AfterReceipt == {"parse", "process", "fetch", "createDF", "map", "save", "upload", "remove"}

\* C1 (delete at receipt): an instance that is parsing or processing a
\* message has already deleted it from the queue, and a deleted message
\* stays deleted whatever happens afterwards.
C1_DeleteAtReceipt ==
  /\ [](\A i \in Instances : pc[i] \in AfterReceipt => queue[cur[i]] = "deleted")
  /\ [][\A m \in MsgIds : queue[m] = "deleted" => queue'[m] = "deleted"]_vars

\* A job whose upload raised: its message is deleted all the same.
C1_Witness ==
  /\ pc[1] = "except"
  /\ lastExc[1] = "upload"
  /\ queue[cur[1]] = "deleted"

\* C2 (at most once): no message is handed to process_message twice.
C2_AtMostOnce == \A m \in MsgIds : processed[m] <= 1

\* A processed job failed, the loop is back at its polling step, and the
\* message is neither visible nor in flight.
C2_Witness ==
  /\ pc[1] = "poll"
  /\ invoked[1]
  /\ caught[1]
  /\ processed[cur[1]] = 1
  /\ queue[cur[1]] = "deleted"

\* C3 (loop resilience): a running instance attempts a queue receive again
\* and again, and every exception is followed by a return to the polling
\* step.
C3_LoopResilience ==
  (mode = "service") =>
    /\ []<><<ReceiveMessage(1)>>_vars
    /\ (pc[1] = "except") ~> (pc[1] = "poll")

\* The fetch raised and the loop is back at its polling step.
C3_Witness ==
  /\ pc[1] = "poll"
  /\ caught[1]
  /\ lastExc[1] = "fetch"

\* C4 (one wait after an exception): from the moment the except clause has
\* run until the next receive, exactly one wait of POLL_INTERVAL has been
\* made in the iteration; while the exception is on its way to the except
\* clause no wait has been made and the instance is not at its polling step.
C4_OneWaitAfterException ==
  \A i \in Instances :
    /\ caught[i] => (waits[i] = <<POLL_INTERVAL>> /\ pc[i] = "poll")
    /\ pc[i] = "except" => (waits[i] = <<>> /\ ~caught[i])

\* The queue receive itself raised, was caught and waited for.
C4_Witness ==
  /\ pc[1] = "poll"
  /\ caught[1]
  /\ lastExc[1] = "receive"
  /\ waits[1] = <<POLL_INTERVAL>>

\* C5 (missing table_name): process_message, called with a job whose
\* table_name is absent, null or empty, makes no fetch, mapping, write or
\* upload and returns to the loop without an exception.
C5_MissingTableSkipped ==
  \A i \in Instances :
    ( /\ invoked[i]
      /\ message[i].kind = "dict"
      /\ (message[i].tnKind \in {"absent", "null"} \/ message[i].tn = "") )
    => /\ calls[i] = <<>>
       /\ pc[i] \in {"process", "poll"}
       /\ lastExc[i] = "none"
       /\ ~caught[i]
       /\ file_name[i] = ""

\* process_message has returned from a job whose table_name is "".
C5_Witness ==
  /\ pc[1] = "poll"
  /\ invoked[1]
  /\ message[1].tnKind = "str"
  /\ message[1].tn = ""

\* C6 (empty result): after a fetch that returned no rows, process_message
\* has called neither the mapper nor the exporter: the fetch is its only
\* step, no file name was made and it has returned.
C6_EmptyResultNoExport ==
  \A i \in Instances :
    data[i].n = 0 =>
      /\ calls[i] = <<"fetch">>
      /\ pc[i] = "poll"
      /\ ~df[i].made
      /\ file_name[i] = ""

\* A job with a mapping whose fetch returned no rows.
C6_Witness ==
  /\ data[1].n = 0
  /\ message[1].mapping # <<>>
  /\ pc[1] = "poll"

\* C7 (column mapping result): for a non-empty mapping M, the mapper returns
\* exactly [M[k] for k in M if k in C].
C7_MappingResult ==
  (mDone /\ mM # <<>>) => mOut = MappedColumns(mC, mM)

\* C8 as stated (empty mapping): the mapper applied to an empty mapping
\* returns the column list it was given.
C8_EmptyMappingIdentity ==
  (mDone /\ mM = <<>>) => mOut = mC

\* C8 amended: a job whose column_mapping is empty or absent never reaches
\* the mapper and its DataFrame keeps the fetched column list; the mapper
\* itself, applied to an empty mapping, returns no columns.
C8_EmptyMappingSkipped ==
  /\ \A i \in Instances :
       (df[i].made /\ message[i].mapping = <<>>) =>
         /\ df[i].cols = data[i].cols
         /\ pc[i] # "map"
         /\ ~InSeq("map", calls[i])
  /\ (mDone /\ mM = <<>>) => mOut = <<>>

\* A job without mapping is being uploaded with the fetched columns.
C8_Witness ==
  /\ pc[1] = "upload"
  /\ message[1].mapping = <<>>
  /\ df[1].cols = ExampleColumns

\* C9 (scratch cleanup): whenever an instance is at its polling step, no
\* file it wrote under /tmp is left.
C9_ScratchCleanup ==
  \A i \in Instances : pc[i] = "poll" => local[i] = {}

\* C10 (one new object per export): every successful upload created an
\* object under {S3_PATH}/{table_name}_{token}.csv for an issued token, the
\* keys of all uploads are pairwise distinct and none replaced an object.
C10_DistinctKeys ==
  /\ ~overwritten
  /\ Cardinality(s3) = Len(uploads)
  /\ \A j, k \in 1 .. Len(uploads) : j # k => uploads[j].key # uploads[k].key
  /\ \A k \in 1 .. Len(uploads) :
       /\ uploads[k].key \in s3
       /\ \E t \in issued :
            uploads[k].key = S3_PATH \o "/" \o uploads[k].table \o "_" \o t \o ".csv"
  /\ \A t \in issued : Len(t) = 32

\* Two exports of the same table.
C10_Witness ==
  /\ Len(uploads) = 2
  /\ uploads[1].table = uploads[2].table

\* C11 (polling -> processing on every non-empty receive): in an iteration
\* in which the queue delivered a message and its body parsed, the loop
\* calls process_message; the else branch of main is taken only when the
\* queue delivered nothing.
C11_ProcessOnReceive ==
  \A i \in Instances :
    ( /\ cur[i] # 0
      /\ pc[i] \notin {"delete", "parse"}
      /\ lastExc[i] \notin {"delete", "parse"} )
    => (invoked[i] /\ pc[i] # "sleep")

\* The steps of process_message, in the order of the source.
Rank(step) ==
  CASE step = "fetch" -> 1
    [] step = "map" -> 2
    [] step = "write" -> 3
    [] step = "upload" -> 4
    [] step = "remove" -> 5

UploadsOf(m) == { k \in 1 .. Len(uploads) : uploads[k].msg = m }

\* C13 (order of the side effects of one job): the steps a call of
\* process_message has made are in the order fetch, map, write, upload,
\* remove, each at most once and the fetch first; a job with a mapping is
\* written only after the mapping, uploaded only after the write and its
\* local file removed only after the upload, the file existing in between;
\* no message has more than one upload.
C13_SideEffectOrder ==
  /\ \A i \in Instances :
       /\ \A j, k \in 1 .. Len(calls[i]) : j < k => Rank(calls[i][j]) < Rank(calls[i][k])
       /\ calls[i] # <<>> => calls[i][1] = "fetch"
       /\ (InSeq("write", calls[i]) /\ message[i].mapping # <<>>) => InSeq("map", calls[i])
       /\ InSeq("upload", calls[i]) => InSeq("write", calls[i])
       /\ InSeq("remove", calls[i]) => InSeq("upload", calls[i])
       /\ pc[i] \in {"upload", "remove"} => ("/tmp/" \o file_name[i]) \in local[i]
  /\ \A m \in MsgIds : Cardinality(UploadsOf(m)) <= 1

\* A job with a mapping went through all five steps.
C13_Witness ==
  calls[1] = <<"fetch", "map", "write", "upload", "remove">>

\* C14 (the fetcher closes its connection): whenever an instance is at its
\* polling step, no connection opened by one of its fetches is open.
C14_ConnectionClosed ==
  \A i \in Instances : pc[i] = "poll" => conns[i] = 0

\* C15 (when the loop waits): an iteration waits only once, for
\* POLL_INTERVAL, and only when the queue delivered nothing or an exception
\* was caught; an iteration that caught an exception has waited, and one in
\* which a message was delivered and nothing was raised ends without a wait.
C15_WaitOnlyOnEmptyOrError ==
  \A i \in Instances :
    /\ waits[i] # <<>> => (waits[i] = <<POLL_INTERVAL>> /\ (cur[i] = 0 \/ caught[i]))
    /\ (pc[i] = "poll" /\ caught[i]) => waits[i] = <<POLL_INTERVAL>>
    /\ (pc[i] = "poll" /\ cur[i] # 0 /\ ~caught[i]) => waits[i] = <<>>

Deleted == { m \in MsgIds : queue[m] = "deleted" }

\* C16 (output accounting): every object in the bucket was uploaded for a
\* message that is deleted from the queue, whose table_name was a non-empty
\* string and whose fetch returned rows; a message accounts for at most one
\* object, and there are no more objects than deleted messages.
C16_OutputAccounting ==
  /\ s3 = { uploads[k].key : k \in 1 .. Len(uploads) }
  /\ \A k \in 1 .. Len(uploads) :
       /\ uploads[k].msg \in Deleted
       /\ uploads[k].tnKind = "str"
       /\ uploads[k].table # ""
       /\ uploads[k].rows > 0
  /\ \A m \in MsgIds : Cardinality(UploadsOf(m)) <= 1
  /\ Cardinality(s3) <= Cardinality(Deleted)

\* Two deleted messages, one of them exported and one not.
C16_Witness ==
  /\ Cardinality(s3) = 1
  /\ Cardinality(Deleted) = 2
  /\ pc[1] = "poll"

\* C12 as stated (two instances on one queue): no message is held by two
\* instances, and no message is handed to process_message by two instances.
C12_OneInstancePerMessage ==
  /\ \A i, j \in Instances : (i # j /\ cur[i] # 0) => cur[i] # cur[j]
  /\ \A m \in MsgIds : Cardinality(processedBy[m]) <= 1

\* C12 amended: an instance receives only a message that no instance has
\* deleted yet, it processes a message only after its own delete of it, and
\* no instance processes the same message twice; so a message is processed
\* at most once by each instance, by both only when the second received it
\* before the first deleted it.
C12_OncePerInstance ==
  /\ [](/\ \A m \in MsgIds : processed[m] = Cardinality(processedBy[m])
        /\ \A i \in Instances : pc[i] \in AfterReceipt => queue[cur[i]] = "deleted")
  /\ [][\A i \in Instances :
          (pc[i] = "poll" /\ pc'[i] = "delete") => queue[cur'[i]] = "visible"]_vars

\* Both instances have called process_message with the same message.
C12_Witness ==
  /\ cur[1] = cur[2]
  /\ invoked[1]
  /\ invoked[2]
  /\ processedBy[cur[1]] = {1, 2}

====
